---- MODULE Spec2Model ----
(***************************************************************************)
(* Model of the four point generators of data-scripts/:                    *)
(*   generate_lissajous.py, generate_lorenz.py, generate_spiral_sphere.py, *)
(*   generate_torus_knot.py.                                               *)
(*                                                                         *)
(* Numbers.  A real value is a normalised rational <<n, d>>, d > 0.        *)
(* Angles are kept in turns (1 turn = 2*pi radians), so 2*math.pi*k is the *)
(* rational k and sin/cos are evaluated on the angle reduced modulo one    *)
(* turn.  A sine is represented by its canonical argument in [-1/4, 1/4],  *)
(* on which sin is injective: two sines are equal iff their canonical      *)
(* arguments are.  The spiral's running sums are rounded after every       *)
(* operation to Prec significant bits, round-half-to-even, as a binary     *)
(* floating-point format does; the Lorenz recurrence is computed exactly.  *)
(***************************************************************************)
EXTENDS Integers, Sequences, FiniteSets, TLC

VARIABLES session, pc, fn, caller, args, i, locals, coordinates, file, history

vars == <<session, pc, fn, caller, args, i, locals, coordinates, file, history>>

----------------------------------------------------------------------------
(* Bounds of the model *)

MaxFreq == 3
MaxSteps == 4
MaxLorenzSteps == 2
MaxSpiralSteps == 9
MaxRadius == 3
MaxCalls == 3
Prec == 2

----------------------------------------------------------------------------
(* Exact rational arithmetic *)

Abs(n) == IF n < 0 THEN -n ELSE n

RECURSIVE gcd(_, _)
gcd(m, n) == IF n = 0 THEN Abs(m) ELSE gcd(n, m % Abs(n))

Norm(n, d) ==
    LET g == gcd(n, d)
        s == IF d < 0 THEN -1 ELSE 1
    IN  <<(s * n) \div g, (s * d) \div g>>

Rat(n) == <<n, 1>>
Zero == Rat(0)
Add(p, q) == Norm(p[1] * q[2] + q[1] * p[2], p[2] * q[2])
Neg(p) == <<-p[1], p[2]>>
Sub(p, q) == Add(p, Neg(q))
Mul(p, q) == LET g1 == gcd(p[1], q[2])
                 g2 == gcd(q[1], p[2])
             IN  IF p[1] = 0 \/ q[1] = 0 THEN Zero
                 ELSE Norm((p[1] \div g1) * (q[1] \div g2),
                           (p[2] \div g2) * (q[2] \div g1))
Quot(p, q) == Mul(p, Norm(q[2], q[1]))
Less(p, q) == p[1] * q[2] < q[1] * p[2]
Leq(p, q) == p[1] * q[2] <= q[1] * p[2]
IsWhole(p) == p[2] = 1
Floor(p) == p[1] \div p[2]
Frac(p) == Sub(p, Rat(Floor(p)))

----------------------------------------------------------------------------
(* Binary floating point with Prec significant bits (Python float: the     *)
(* same rounding with 53 bits)                                             *)

RECURSIVE Pow2(_)
Pow2(k) == IF k = 0 THEN 1 ELSE 2 * Pow2(k - 1)

\* nearest integer to the non-negative rational r, ties to even
RoundHalfEven(r) ==
    LET m == r[1] \div r[2]
        twice == 2 * (r[1] - m * r[2])
    IN  IF twice > r[2] \/ (twice = r[2] /\ m % 2 = 1) THEN m + 1 ELSE m

\* a > 0 rounded to a multiple of unit with Prec significant bits
RECURSIVE flPos(_, _)
flPos(a, unit) ==
    LET m == Quot(a, unit)
    IN  IF Leq(Rat(Pow2(Prec)), m) THEN flPos(a, Mul(unit, Rat(2)))
        ELSE IF Less(m, Rat(Pow2(Prec - 1))) THEN flPos(a, Quot(unit, Rat(2)))
        ELSE Mul(Rat(RoundHalfEven(m)), unit)

fl(q) == IF q[1] = 0 THEN Zero
         ELSE IF q[1] < 0 THEN Neg(flPos(Neg(q), Rat(1)))
         ELSE flPos(q, Rat(1))

----------------------------------------------------------------------------
(* math.sin / math.cos on an angle given in turns *)

Quarter == <<1, 4>>
Half == <<1, 2>>

\* the s in [-1/4, 1/4] with sin(2*pi*s) = sin(2*pi*theta)
SinArg(theta) ==
    LET u == Frac(theta)
    IN  IF Leq(u, Quarter) THEN u
        ELSE IF Leq(u, <<3, 4>>) THEN Sub(Half, u)
        ELSE Sub(u, Rat(1))

CosArg(theta) == SinArg(Add(theta, Quarter))

----------------------------------------------------------------------------
(* Who calls: a script run (main, once: session "script") or a caller      *)
(* importing the module and calling the generator functions up to MaxCalls *)
(* times (session "repeat", with fewer parameter values per call).         *)
(* main of generate_lorenz.py and generate_spiral_sphere.py only call      *)
(* their generator with steps=25000; the generators are called directly.   *)

Loops == {"lissajous", "lorenz", "spiral", "torus"}

NoLocals == [none |-> TRUE]

CanCall ==
    \/ pc = "idle"
    \/ session = "repeat" /\ pc = "returned" /\ Len(history) < MaxCalls

StepArgs(max) == IF session = "repeat" THEN 1..2 ELSE -1..max

\* for i in range(steps): the loop is over
\* fault variant of LoopDone: range(steps - 1)
LoopDoneEarly == ~(i < args.steps - 1)

LoopDone == ~(i < args.steps)

----------------------------------------------------------------------------
(* generate_lorenz.py *)

sigma == Rat(10)
rho == Rat(28)
beta == <<8, 3>>
scale == Rat(10)

LorenzInitial == [x |-> <<1, 10>>, y |-> Zero, z |-> Zero]

DtArgs == IF session = "repeat" THEN {<<1, 2>>}
          ELSE {Rat(1), <<1, 2>>, <<1, 4>>, <<1, 10>>}

Scaled(s) == <<Mul(s.x, scale), Mul(s.y, scale), Mul(s.z, scale)>>

Euler(s, dt) ==
    LET dx_dt == Mul(sigma, Sub(s.y, s.x))
        dy_dt == Sub(Mul(s.x, Sub(rho, s.z)), s.y)
        dz_dt == Sub(Mul(s.x, s.y), Mul(beta, s.z))
    IN  [x |-> Add(s.x, Mul(dx_dt, dt)),
         y |-> Add(s.y, Mul(dy_dt, dt)),
         z |-> Add(s.z, Mul(dz_dt, dt))]

\* fault variant of CallLorenz: x, y, z kept from the previous call
CallLorenzStale ==
    /\ CanCall
    /\ \E steps \in StepArgs(MaxLorenzSteps), dt \in DtArgs :
          args' = [steps |-> steps, dt |-> dt]
    /\ pc' = "lorenz" /\ fn' = "lorenz" /\ caller' = "direct"
    /\ i' = 0 /\ coordinates' = <<>>
    /\ locals' = IF fn = "lorenz" THEN locals ELSE LorenzInitial
    /\ UNCHANGED <<session, file, history>>

CallLorenz ==
    /\ CanCall
    /\ \E steps \in StepArgs(MaxLorenzSteps), dt \in DtArgs :
          args' = [steps |-> steps, dt |-> dt]
    /\ pc' = "lorenz" /\ fn' = "lorenz" /\ caller' = "direct"
    /\ i' = 0 /\ coordinates' = <<>>
    /\ locals' = LorenzInitial
    /\ UNCHANGED <<session, file, history>>

\* fault variant of LorenzStep: the Euler update before the append
LorenzStepUpdateFirst ==
    /\ pc = "lorenz" /\ ~LoopDone
    /\ locals' = Euler(locals, args.dt)
    /\ coordinates' = Append(coordinates, Scaled(locals'))
    /\ i' = i + 1
    /\ UNCHANGED <<session, pc, fn, caller, args, file, history>>

LorenzStep ==
    /\ pc = "lorenz" /\ ~LoopDone
    /\ coordinates' = Append(coordinates, Scaled(locals))
    /\ locals' = Euler(locals, args.dt)
    /\ i' = i + 1
    /\ UNCHANGED <<session, pc, fn, caller, args, file, history>>

----------------------------------------------------------------------------
(* generate_lissajous.py *)

TwoPi == Rat(1)

\* fault variant of lcm: the product, not divided by the gcd
lcmNoGcd(a, b) == Abs(a * b)

lcm(a, b) == Abs(a * b) \div gcd(a, b)

LissajousPeriod(a, b, c) == lcm(lcm(a, b), c)

LissajousTMax(period) == Mul(TwoPi, Rat(period))

\* fault variant of SampleT: t_max left out
SampleTUnit(k, steps, t_max) == Norm(k, steps)

\* t = (i / steps) * t_max
SampleT(k, steps, t_max) == Mul(Norm(k, steps), t_max)

LissajousPoint(g, t) ==
    <<[amp |-> g.amp[1], sin |-> SinArg(Add(Mul(Rat(g.a), t), g.phase[1]))],
      [amp |-> g.amp[2], sin |-> SinArg(Add(Mul(Rat(g.b), t), g.phase[2]))],
      [amp |-> g.amp[3], sin |-> SinArg(Add(Mul(Rat(g.c), t), g.phase[3]))]>>

PhaseArgs == IF session = "repeat" THEN {<<Zero, Quarter, Zero>>}
             ELSE {<<Zero, Quarter, Zero>>, <<Zero, Zero, Zero>>,
                   <<<<1, 8>>, Quarter, Half>>}

\* --amp: absent (None) or given
AmpOverride == {<<>>, <<150>>}

AmpArgs == IF session = "repeat" THEN {<<100, 100, 100>>}
           ELSE {<<100, 100, 100>>, <<150, 100, 80>>}

\* lines 38-47: the locals of one invocation
LissajousBegin(g) ==
    /\ args' = g
    /\ fn' = "lissajous" /\ pc' = "lissajous"
    /\ i' = 0 /\ coordinates' = <<>>
    /\ LET period == LissajousPeriod(g.a, g.b, g.c)
       IN  locals' = [period |-> period, t_max |-> LissajousTMax(period),
                      t |-> Zero]

CallLissajous ==
    /\ CanCall /\ session = "repeat"
    /\ \E f \in {<<1, 1, 1>>, <<1, 2, 3>>}, ph \in PhaseArgs,
          amp \in AmpArgs, steps \in StepArgs(MaxSteps) :
          LissajousBegin([a |-> f[1], b |-> f[2], c |-> f[3], phase |-> ph,
                          amp |-> amp, steps |-> steps])
    /\ caller' = "direct"
    /\ UNCHANGED <<session, file, history>>

\* main up to the call of generate_lissajous; parser.error exits
\* fault variant of MainLissajous: the validation leaves c out
MainLissajousForgetsC ==
    /\ pc = "idle" /\ session = "script"
    /\ \E a \in 0..MaxFreq, b \in 0..MaxFreq, c \in 0..MaxFreq,
          ph \in PhaseArgs, amps \in AmpArgs, amp \in AmpOverride,
          steps \in StepArgs(MaxSteps) :
          LET g == [a |-> a, b |-> b, c |-> c, phase |-> ph,
                    amp |-> IF amp # <<>> THEN <<amp[1], amp[1], amp[1]>>
                            ELSE amps,
                    steps |-> steps]
          IN  IF a <= 0 \/ b <= 0
              THEN /\ pc' = "exit_error" /\ fn' = "lissajous" /\ args' = g
                   /\ UNCHANGED <<i, locals, coordinates>>
              ELSE LissajousBegin(g)
    /\ caller' = "main"
    /\ UNCHANGED <<session, file, history>>

MainLissajous ==
    /\ pc = "idle" /\ session = "script"
    /\ \E a \in 0..MaxFreq, b \in 0..MaxFreq, c \in 0..MaxFreq,
          ph \in PhaseArgs, amps \in AmpArgs, amp \in AmpOverride,
          steps \in StepArgs(MaxSteps) :
          LET g == [a |-> a, b |-> b, c |-> c, phase |-> ph,
                    amp |-> IF amp # <<>> THEN <<amp[1], amp[1], amp[1]>>
                            ELSE amps,
                    steps |-> steps]
          IN  IF a <= 0 \/ b <= 0 \/ c <= 0
              THEN /\ pc' = "exit_error" /\ fn' = "lissajous" /\ args' = g
                   /\ UNCHANGED <<i, locals, coordinates>>
              ELSE LissajousBegin(g)
    /\ caller' = "main"
    /\ UNCHANGED <<session, file, history>>

LissajousStep ==
    /\ pc = "lissajous" /\ ~LoopDone
    /\ LET t == SampleT(i, args.steps, locals.t_max)
       IN  /\ locals' = [locals EXCEPT !.t = t]
           /\ coordinates' = Append(coordinates, LissajousPoint(args, t))
    /\ i' = i + 1
    /\ UNCHANGED <<session, pc, fn, caller, args, file, history>>

----------------------------------------------------------------------------
(* generate_torus_knot.py *)

Max(m, n) == IF m >= n THEN m ELSE n

\* fault variant of TorusTMax: math.pi * max(p, q)
TorusTMaxHalf(p, q) == Mul(Half, Rat(Max(p, q)))

TorusTMax(p, q) == Mul(TwoPi, Rat(Max(p, q)))

\* x = (R + r cos(pt)) cos(qt), y = (R + r cos(pt)) sin(qt), z = r sin(pt)
TorusPoint(g, t) ==
    LET pt == Mul(Rat(g.p), t)
        qt == Mul(Rat(g.q), t)
    IN  <<[R |-> g.R, r |-> g.r, cos_pt |-> CosArg(pt), cos_qt |-> CosArg(qt)],
          [R |-> g.R, r |-> g.r, cos_pt |-> CosArg(pt), sin_qt |-> SinArg(qt)],
          [r |-> g.r, sin_pt |-> SinArg(pt)]>>

RadiiArgs == IF session = "repeat" THEN {<<100, 50>>}
             ELSE {<<100, 50>>, <<150, 80>>, <<0, 50>>, <<100, -50>>}

TorusBegin(g) ==
    /\ args' = g
    /\ fn' = "torus" /\ pc' = "torus"
    /\ i' = 0 /\ coordinates' = <<>>
    /\ locals' = [t_max |-> TorusTMax(g.p, g.q), t |-> Zero]

CallTorus ==
    /\ CanCall /\ session = "repeat"
    /\ \E w \in {<<3, 2>>, <<1, 1>>}, rr \in RadiiArgs,
          steps \in StepArgs(MaxSteps) :
          TorusBegin([p |-> w[1], q |-> w[2], R |-> rr[1], r |-> rr[2],
                      steps |-> steps])
    /\ caller' = "direct"
    /\ UNCHANGED <<session, file, history>>

MainTorus ==
    /\ pc = "idle" /\ session = "script"
    /\ \E p \in 0..MaxFreq, q \in 0..MaxFreq, rr \in RadiiArgs,
          steps \in StepArgs(MaxSteps) :
          LET g == [p |-> p, q |-> q, R |-> rr[1], r |-> rr[2],
                    steps |-> steps]
          IN  IF p <= 0 \/ q <= 0
              THEN /\ pc' = "exit_error" /\ fn' = "torus" /\ args' = g
                   /\ UNCHANGED <<i, locals, coordinates>>
              ELSE TorusBegin(g)
    /\ caller' = "main"
    /\ UNCHANGED <<session, file, history>>

TorusStep ==
    /\ pc = "torus" /\ ~LoopDone
    /\ LET t == SampleT(i, args.steps, locals.t_max)
       IN  /\ locals' = [locals EXCEPT !.t = t]
           /\ coordinates' = Append(coordinates, TorusPoint(args, t))
    /\ i' = i + 1
    /\ UNCHANGED <<session, pc, fn, caller, args, file, history>>

----------------------------------------------------------------------------
(* generate_spiral_sphere.py *)

Representable(n) == fl(Rat(n)) = Rat(n)

RadiusArgs == IF session = "repeat" THEN {2}
              ELSE {n \in -1..MaxRadius : Representable(n)}

TurnsArgs == IF session = "repeat" THEN {1} ELSE {1, 3}

\* radius * radius - y * y, every operation rounded
Radicand(radius, y) ==
    fl(Sub(fl(Mul(radius, radius)), fl(Mul(y, y))))

\* fault variant of SpiralBegin: y starts at +radius
SpiralBeginAtTop(steps, radius, turns) ==
    [y |-> radius,
     y_step |-> fl(Quot(fl(Mul(Rat(2), radius)), Rat(steps))),
     turn_angle |-> Zero,
     turn_angle_step |-> fl(Quot(Mul(turns, TwoPi), Rat(steps))),
     radicand |-> Zero]

\* y = -radius; y_step = (2 * radius) / steps;
\* turn_angle = 0; turn_angle_step = turns * 2 * math.pi / steps
\* (the angle in turns; radicand holds the last value given to math.sqrt)
SpiralBegin(steps, radius, turns) ==
    [y |-> Neg(radius),
     y_step |-> fl(Quot(fl(Mul(Rat(2), radius)), Rat(steps))),
     turn_angle |-> Zero,
     turn_angle_step |-> fl(Quot(Mul(turns, TwoPi), Rat(steps))),
     radicand |-> Zero]

\* steps = 0: ZeroDivisionError in y_step, before the loop
CallSpiral ==
    /\ CanCall
    /\ \E steps \in StepArgs(MaxSpiralSteps), radius \in RadiusArgs,
          turns \in TurnsArgs :
          /\ args' = [steps |-> steps, radius |-> Rat(radius),
                      turns |-> Rat(turns)]
          /\ IF steps = 0
             THEN pc' = "fault" /\ locals' = NoLocals
             ELSE /\ pc' = "spiral"
                  /\ locals' = SpiralBegin(steps, Rat(radius), Rat(turns))
    /\ fn' = "spiral" /\ caller' = "direct"
    /\ i' = 0 /\ coordinates' = <<>>
    /\ UNCHANGED <<session, file, history>>

\* the value cos(angle) * sqrt(radicand), resp. sin(angle) * sqrt(radicand)
TimesSqrt(trig, radicand) == [trig |-> trig, sqrt_of |-> radicand]

IsZeroValue(v) == v.sqrt_of = Zero \/ v.trig = Zero

\* math.sqrt of a negative number raises ValueError: nothing is returned
SpiralStep ==
    /\ pc = "spiral" /\ ~LoopDone
    /\ LET d == Radicand(args.radius, locals.y)
       IN  IF Less(d, Zero)
           THEN /\ pc' = "fault"
                /\ locals' = [locals EXCEPT !.radicand = d]
                /\ UNCHANGED <<i, coordinates>>
           ELSE /\ coordinates' = Append(coordinates,
                       <<TimesSqrt(CosArg(locals.turn_angle), d),
                         locals.y,
                         TimesSqrt(SinArg(locals.turn_angle), d)>>)
                /\ locals' = [locals EXCEPT
                       !.radicand = d,
                       !.y = fl(Add(locals.y, locals.y_step)),
                       !.turn_angle =
                           fl(Add(locals.turn_angle, locals.turn_angle_step))]
                /\ i' = i + 1
                /\ pc' = pc
    /\ UNCHANGED <<session, fn, caller, args, file, history>>

----------------------------------------------------------------------------
(* main of generate_lissajous.py and generate_torus_knot.py after the      *)
(* generator returned: open(args.output, 'w') and one line per point       *)

MainWrite ==
    /\ pc \in {"lissajous", "torus"} /\ caller = "main" /\ LoopDone
    /\ file' = [opened |-> TRUE, lines |-> Len(coordinates)]
    /\ pc' = "done"
    /\ UNCHANGED <<session, fn, caller, args, i, locals, coordinates, history>>

----------------------------------------------------------------------------
(* return coordinates, to a direct caller *)

Return ==
    /\ pc \in Loops /\ caller = "direct" /\ LoopDone
    /\ pc' = "returned"
    /\ history' = Append(history,
                         [fn |-> fn, args |-> args, result |-> coordinates])
    /\ UNCHANGED <<session, fn, caller, args, i, locals, coordinates, file>>

----------------------------------------------------------------------------

InitCommon ==
    /\ pc = "idle" /\ fn = "none" /\ caller = "none"
    /\ args = [steps |-> 0] /\ i = 0 /\ locals = NoLocals
    /\ coordinates = <<>> /\ file = [opened |-> FALSE, lines |-> 0]
    /\ history = <<>>

Init == session = "script" /\ InitCommon

InitRepeat == session = "repeat" /\ InitCommon

Next ==
    \/ MainLissajous
    \/ MainTorus
    \/ CallLorenz
    \/ CallSpiral
    \/ LissajousStep
    \/ TorusStep
    \/ LorenzStep
    \/ SpiralStep
    \/ MainWrite
    \/ Return

NextRepeat ==
    \/ CallLissajous
    \/ CallTorus
    \/ CallLorenz
    \/ CallSpiral
    \/ LissajousStep
    \/ TorusStep
    \/ LorenzStep
    \/ SpiralStep
    \/ Return

Spec == Init /\ [][Next]_vars

SpecRepeat == InitRepeat /\ [][NextRepeat]_vars

----------------------------------------------------------------------------
(* Properties *)

Returned == pc \in {"returned", "done"}

\* C1: whenever a generator returns for steps >= 1, the returned sequence
\* has exactly steps points; inside the loop one point has been appended per
\* completed iteration.
C1_LengthIsSteps ==
    /\ pc \in Loops => Len(coordinates) = i
    /\ (Returned /\ args.steps >= 1) => Len(coordinates) = args.steps
    /\ \A k \in 1..Len(history) :
          history[k].args.steps >= 1
              => Len(history[k].result) = history[k].args.steps

C1_Witness ==
    /\ Returned /\ args.steps = MaxSteps /\ Len(coordinates) = MaxSteps

\* the Lorenz state after k Euler updates from the initial condition
RECURSIVE EulerIter(_, _)
EulerIter(k, dt) ==
    IF k = 0 THEN [x |-> <<1, 10>>, y |-> Zero, z |-> Zero]
    ELSE Euler(EulerIter(k - 1, dt), dt)

\* C2: in lorenz_attractor the point at index k (from 0) is the scaled state
\* after exactly k Euler updates, so the first point is (1.0, 0.0, 0.0).
C2_EmitBeforeUpdate ==
    fn = "lorenz" =>
        /\ \A k \in 1..Len(coordinates) :
              coordinates[k] = Scaled(EulerIter(k - 1, args.dt))
        /\ Len(coordinates) >= 1 => coordinates[1] = <<Rat(1), Zero, Zero>>

C2_Witness ==
    /\ fn = "lorenz" /\ pc = "returned" /\ Len(coordinates) = 2
    /\ coordinates[1] = <<Rat(1), Zero, Zero>>
    /\ coordinates[2] # coordinates[1]

InvalidFrequency ==
    \/ fn = "lissajous" /\ (args.a <= 0 \/ args.b <= 0 \/ args.c <= 0)
    \/ fn = "torus" /\ (args.p <= 0 \/ args.q <= 0)

\* C3: a run of main with a non-positive frequency (a, b, c) or winding
\* number (p, q) exits in the validation: no point is ever produced and the
\* output file is never opened.
C3_InvalidFrequencyRejected ==
    (caller = "main" /\ InvalidFrequency) =>
        /\ pc = "exit_error"
        /\ coordinates = <<>>
        /\ ~file.opened

C3_Witness ==
    /\ caller = "main" /\ fn = "lissajous" /\ pc = "exit_error"
    /\ args.a > 0 /\ args.b > 0 /\ args.c = 0 /\ args.steps >= 1

NonPositiveSize ==
    /\ fn # "none"
    /\ \/ args.steps <= 0
       \/ fn = "spiral" /\ Leq(args.radius, Zero)
       \/ fn = "torus" /\ (args.R <= 0 \/ args.r <= 0)

\* C4: a non-positive step count or radius is rejected before generation:
\* no generator returns, no point is produced and no output file (not even
\* an empty one) is created.
C4_NonPositiveSizeRejected ==
    NonPositiveSize =>
        /\ ~Returned
        /\ coordinates = <<>>
        /\ ~file.opened

\* a*t, b*t and c*t are all whole multiples of 2*pi
ClosureAt(g, t) ==
    /\ IsWhole(Mul(Rat(g.a), t))
    /\ IsWhole(Mul(Rat(g.b), t))
    /\ IsWhole(Mul(Rat(g.c), t))

CoprimeRun ==
    /\ fn = "lissajous" /\ pc \in {"lissajous", "done"} /\ i >= 1
    /\ gcd(gcd(args.a, args.b), args.c) = 1

C7_RadicandNeverNegative ==
    (fn = "spiral" /\ args.steps >= 1 /\ Less(Zero, args.radius)) =>
        /\ pc # "fault"
        /\ Leq(Zero, locals.radicand)

ValidSpiral ==
    /\ fn = "spiral" /\ pc \in {"spiral", "returned"}
    /\ args.steps >= 1 /\ Less(Zero, args.radius)

\* start + k * step in exact arithmetic
Linear(start, step, k) == Add(start, Mul(Rat(k), step))

\* start after k rounded additions of step
RECURSIVE RunningSum(_, _, _)
RunningSum(start, step, k) ==
    IF k = 0 THEN start ELSE fl(Add(RunningSum(start, step, k - 1), step))

\* C8 as stated: the point at index k has y = -radius + k * y_step exactly,
\* y is strictly increasing and y = +radius is never emitted; the first
\* point has x = 0 and z = 0.
C8_ExactSweep ==
    ValidSpiral =>
        /\ \A k \in 1..Len(coordinates) :
              /\ coordinates[k][2] =
                     Linear(Neg(args.radius), locals.y_step, k - 1)
              /\ coordinates[k][2] # args.radius
              /\ k > 1 => Less(coordinates[k - 1][2], coordinates[k][2])
        /\ Len(coordinates) >= 1 =>
              IsZeroValue(coordinates[1][1]) /\ IsZeroValue(coordinates[1][3])

\* C8 amended: the first point has y = -radius and a zero radicand, hence
\* x = 0 and z = 0; the y at index k is -radius after k rounded additions of
\* the rounded y_step, and the azimuth is 0 after k rounded additions of the
\* rounded angle step; y never decreases.
C8_RoundedSweep ==
    ValidSpiral =>
        /\ locals.y_step =
               fl(Quot(Mul(Rat(2), args.radius), Rat(args.steps)))
        /\ \A k \in 1..Len(coordinates) :
              /\ coordinates[k][2] =
                     RunningSum(Neg(args.radius), locals.y_step, k - 1)
              /\ coordinates[k][1].trig =
                     CosArg(RunningSum(Zero, locals.turn_angle_step, k - 1))
              /\ coordinates[k][3].trig =
                     SinArg(RunningSum(Zero, locals.turn_angle_step, k - 1))
              /\ k > 1 => Leq(coordinates[k - 1][2], coordinates[k][2])
        /\ Len(coordinates) >= 1 =>
              /\ coordinates[1][2] = Neg(args.radius)
              /\ coordinates[1][1].sqrt_of = Zero
              /\ IsZeroValue(coordinates[1][1])
              /\ IsZeroValue(coordinates[1][3])

C8_Witness ==
    /\ ValidSpiral /\ pc = "returned" /\ Len(coordinates) >= 3
    /\ \E k \in 1..Len(coordinates) :
          coordinates[k][2] # Linear(Neg(args.radius), locals.y_step, k - 1)

\* C9: two calls of a generator with identical parameters return identical
\* sequences, whatever was called in between, and every Lorenz call starts
\* from the state (0.1, 0, 0).
C9_Purity ==
    /\ \A h1, h2 \in 1..Len(history) :
          (history[h1].fn = history[h2].fn
              /\ history[h1].args = history[h2].args)
              => history[h1].result = history[h2].result
    /\ (pc = "lorenz" /\ i = 0) =>
          locals = [x |-> <<1, 10>>, y |-> Zero, z |-> Zero]

C9_Witness ==
    /\ Len(history) = 3
    /\ history[1].fn = "lorenz" /\ history[2].fn # "lorenz"
    /\ history[3].fn = "lorenz" /\ history[3].args = history[1].args
    /\ Len(history[3].result) = 2
    /\ history[3].result = history[1].result

Divides(m, n) == n % m = 0

\* C10: the Lissajous period is the least common multiple of a, b, c: it is
\* positive, divisible by each of them, no smaller positive integer is, and
\* it is the same for every order of a, b, c.
C10_PeriodIsLcm ==
    (fn = "lissajous" /\ pc \in {"lissajous", "done"}) =>
        LET P == locals.period
        IN  /\ P > 0
            /\ Divides(args.a, P) /\ Divides(args.b, P) /\ Divides(args.c, P)
            /\ \A m \in 1..(P - 1) :
                  ~(Divides(args.a, m) /\ Divides(args.b, m)
                      /\ Divides(args.c, m))
            /\ P = LissajousPeriod(args.b, args.a, args.c)
            /\ P = LissajousPeriod(args.c, args.b, args.a)
            /\ P = LissajousPeriod(args.a, args.c, args.b)
            /\ P = LissajousPeriod(args.b, args.c, args.a)
            /\ P = LissajousPeriod(args.c, args.a, args.b)

C10_Witness ==
    /\ fn = "lissajous" /\ pc = "lissajous"
    /\ args.a = 2 /\ args.b = 2 /\ args.c = 3 /\ locals.period = 6

====
